---- MODULE Spec2Model ----
(***************************************************************************)
(* Task service of the task-management backend: the relational store       *)
(* (tasks, task_assignments, task_dependencies, tags, task_tags,           *)
(* task_history), the Redis side cache, and the handlers of                *)
(* app/services/task_service.py and app/api/v1/tasks.py.                   *)
(*                                                                         *)
(* Every handler is one action: it runs in one database session whose      *)
(* writes are committed together, and whose failure (an exception raised   *)
(* before the commit returns) leaves the store as it was.  For requests    *)
(* that overlap, create_task, add_task_dependency and delete_task are also *)
(* given in two steps, the reads and the commit (SpecConcurrent).          *)
(*                                                                         *)
(* Columns kept: status, priority, due_date, created_at, updated_at.       *)
(* title, description and parent_task_id take the same code paths as       *)
(* status (the scalar branch of update_task) and are left out.             *)
(*                                                                         *)
(* The outcome of a request is that of the handler's own code; the         *)
(* conversion of its return value to the response model is not modelled.   *)
(* The mapping is read as the relational schema it declares (Tag.tasks as  *)
(* the reverse of Task.tags).                                              *)
(***************************************************************************)
EXTENDS Integers, Sequences, FiniteSets, TLC

VARIABLES
    tasks,          \* tasks table: id -> row
    assignments,    \* task_assignments table: set of rows
    dependencies,   \* task_dependencies table: set of rows
    tags,           \* tags table: set of rows
    task_tags,      \* task_tags association table: set of (task_id, tag_id)
    history,        \* task_history table: set of rows
    seq,            \* the autoincrement counters of the tables
    redis,          \* cache store: key -> [value, expires]
    now,            \* wall clock (datetime.utcnow), in seconds
    last,           \* the request last served and its response
    ghost,          \* history variable: what earlier requests were given and returned
    redis_up,       \* whether the cache store answers (a call to it raises otherwise)
    inflight        \* per worker: the request it has read for and not yet committed

vars == <<tasks, assignments, dependencies, tags, task_tags, history, seq, redis, now, last,
          ghost, redis_up, inflight>>
store == <<tasks, assignments, dependencies, tags, task_tags, history>>

----------------------------------------------------------------------------
(* Bounds of the model *)

MaxRequests == 4     \* requests served in a run
MaxUpdateRequests == 4   \* requests served in a run of SpecUpdate
MaxBulkRequests == 3     \* requests served in a run of SpecBulk
MaxDependencyRequests == 4   \* requests served in a run of SpecDependencies
MaxFilterRequests == 3   \* requests served in a run of SpecFilter
MaxAnalyticsRequests == 4    \* requests served in a run of SpecAnalytics
MaxTimelineRequests == 5     \* requests served in a run of SpecTimeline
MaxInvalidationRequests == 4 \* requests served in a run of SpecInvalidation
MaxFailureRequests == 3      \* requests served in a run of SpecFailures
MaxCacheFailureRequests == 3 \* requests served in a run of SpecCacheFailure
MaxConcurrentRequests == 4   \* requests served in a run of SpecConcurrent
MaxRaceRequests == 4         \* requests served in a run of SpecRace
MaxHistoryRequests == 5      \* requests served in a run of SpecHistory
MaxTicks == 2        \* clock advances in a run
TickSeconds == 60    \* seconds by which the clock advances

(* Program constants *)

TaskCacheTTL == 300        \* redis.setex(cache_key, 300, ...)
AnalyticsCacheTTL == 120   \* redis.setex(cache_key, 120, ...)
SecondsPerDay == 86400     \* timedelta(days=days)

\* An Optional value is a set of at most one element: {} is None (NULL in a
\* column), {v} is the value v.
Null == {}
Some(v) == {v}
Val(o) == CHOOSE v \in o : TRUE
Users == {1, 2}            \* rows of the users table (managed outside the service)
Procs == {1, 2}            \* workers of the thread pool that runs the handlers
Idle == [op |-> "idle"]
\* the ids a request may name: every id handed out so far and the next one
TaskIds == 1 .. seq.task

TaskStatus == {"todo", "in_progress", "in_review", "done", "blocked"}
TaskPriority == {"low", "medium", "high", "urgent"}

\* cache keys: "analytics:dashboard" and f"task:{task_id}"
AnalyticsKey == <<"analytics:dashboard", 0>>
TaskKey(task_id) == <<"task:", task_id>>

----------------------------------------------------------------------------
(* Helpers *)

Range(s) == {s[i] : i \in 1 .. Len(s)}

RECURSIVE SetToSeq(_)
SetToSeq(S) == IF S = {} THEN <<>>
               ELSE LET x == CHOOSE y \in S : \A z \in S : y <= z
                    IN <<x>> \o SetToSeq(S \ {x})

\* str(value) as written to old_value / new_value: the text of None, of an
\* enum member ("TaskStatus.DONE") or of a datetime
Str(field, o) ==
    IF o = Null THEN [cls |-> "NoneType", text |-> "None", n |-> 0]
    ELSE IF field = "due_date" THEN [cls |-> "datetime", text |-> "", n |-> Val(o)]
    ELSE [cls |-> field, text |-> Val(o), n |-> 0]

\* ",".join(map(str, ids)): the decimal digits of the ids, in order
RECURSIVE Digits(_)
Digits(ids) == IF ids = <<>> THEN 0 ELSE 10 * Digits(SubSeq(ids, 1, Len(ids) - 1)) + ids[Len(ids)]
Join(ids) == [cls |-> "str", text |-> IF ids = <<>> THEN "" ELSE ",", n |-> Digits(ids)]
EmptyStr == [cls |-> "str", text |-> "", n |-> 0]

\* the order of the fields in task_data.dict(exclude_unset=True)
FieldOrder == <<"status", "priority", "due_date", "assignee_ids", "tag_names">>
ScalarFields == {"status", "priority", "due_date"}

\* redis.get(key): the value, or None when the key is absent or has expired
RedisGet(key) ==
    IF key \in DOMAIN redis /\ now < redis[key].expires THEN Some(redis[key].value) ELSE Null

\* faulty variant: the write is lost
RedisSetex_Lost(r, key, ttl, value) == r

\* redis.setex(key, ttl, value)
RedisSetex(r, key, ttl, value) ==
    [k \in (DOMAIN r) \cup {key} |->
        IF k = key THEN [value |-> value, expires |-> now + ttl] ELSE r[k]]

\* redis.delete(key)
RedisDelete(r, key) == [k \in (DOMAIN r) \ {key} |-> r[k]]

\* faulty variant: the analytics entry is kept
InvalidateTaskCache_Kept(r) == r

\* TaskService._invalidate_task_cache
InvalidateTaskCache(r) == RedisDelete(r, AnalyticsKey)

\* json.dumps(task, default=str): a Task is not JSON-serialisable, so the
\* encoder falls back to str(task), the object's repr, which carries no column
TaskRepr == "<app.models.task.Task object>"
DumpsTask(task) == [json |-> TaskRepr]
\* json.dumps(result) of the analytics dict, and json.loads of either
DumpsDict(d) == [json |-> d]
Loads(s) == s.json

----------------------------------------------------------------------------
(* Queries on the store *)

AssigneesOf(t) == {a.user_id : a \in {x \in assignments : x.task_id = t}}
TagNamesOf(t) == {g.name : g \in {x \in tags : [task_id |-> t, tag_id |-> x.id] \in task_tags}}
DependencyIdsOf(t) == {d.depends_on_task_id : d \in {x \in dependencies : x.task_id = t}}
BlockedByOf(t) == {d.task_id : d \in {x \in dependencies : x.depends_on_task_id = t}}
HistoryOf(t) == {h \in history : h.task_id = t}

\* the task as loaded by the joinedload query of get_task
LoadedTask(t) ==
    [id |-> t, row |-> tasks[t], assignees |-> AssigneesOf(t), tags |-> TagNamesOf(t),
     dependencies |-> DependencyIdsOf(t), blocked_by |-> BlockedByOf(t)]

\* the Session of get_db flushes pending rows before each query, so that the
\* tag lookup of a loop sees the tags the loop has added
SessionAutoflush == TRUE

\* tag get-or-create over a list of names: the names whose lookup finds no
\* Tag, for each of which the loop adds a Tag
FreshTagNames(names) ==
    LET fresh == SetToSeq({i \in 1 .. Len(names) :
                     /\ names[i] \notin {g.name : g \in tags}
                     /\ SessionAutoflush => \A j \in 1 .. (i - 1) : names[j] # names[i]})
    IN [k \in 1 .. Len(fresh) |-> names[fresh[k]]]

\* the Tag rows inserted for the names added
TagRows(fresh) == {[id |-> seq.tag + (k - 1), name |-> fresh[k]] : k \in 1 .. Len(fresh)}

NewTags(names) == TagRows(FreshTagNames(names))

\* faulty variant: the unique index on the name is not enforced
TagNamesUnique_Unchecked(rows) == TRUE

\* name = Column(String(50), unique=True, ...)
TagNamesUnique(rows) == \A g, h \in rows : g.name = h.name => g = h

\* faulty variant: the foreign keys to tasks.id are not enforced
TasksExist_Unchecked(ids) == TRUE

\* ForeignKey("tasks.id"): the rows referenced exist when the insert is committed
TasksExist(ids) == ids \subseteq DOMAIN tasks

TagIdsFor(allTags, names) == {g.id : g \in {x \in allTags : x.name \in Range(names)}}

\* one TaskAssignment row per element of the list
NewAssignments(t, ids) ==
    {[id |-> seq.assignment + (i - 1), task_id |-> t, user_id |-> ids[i]] : i \in 1 .. Len(ids)}

\* faulty variant: the new rows are added to the old ones
ReplaceAssignments_KeepOld(t, ids) ==
    assignments \cup NewAssignments(t, ids)

\* query(TaskAssignment).filter(task_id == t).delete(), then one new row per
\* element of the list
ReplaceAssignments(t, ids) ==
    {a \in assignments : a.task_id # t} \cup NewAssignments(t, ids)

\* one TaskDependency row per element of the list
NewDependencies(t, ids) ==
    {[id |-> seq.dependency + (i - 1), task_id |-> t, depends_on_task_id |-> ids[i]] :
        i \in 1 .. Len(ids)}

\* the tables as a record, for the writes of one transaction
Tables == [tasks |-> tasks, assignments |-> assignments, dependencies |-> dependencies,
           tags |-> tags, task_tags |-> task_tags, history |-> history]

\* faulty variant: what a failed request had written stays
Rollback_KeepWritten(written) == written

\* a request that raises before its commit returns ends its session without a
\* commit: the transaction is rolled back and nothing it wrote stays
Rollback(written) == Tables

\* the tables after a transaction ends
Persist(s) ==
    /\ tasks' = s.tasks
    /\ assignments' = s.assignments
    /\ dependencies' = s.dependencies
    /\ tags' = s.tags
    /\ task_tags' = s.task_tags
    /\ history' = s.history

\* the outcome of a request whose last step is a call to the cache store
CacheOutcome == IF redis_up THEN "ok" ELSE "cache_error"

----------------------------------------------------------------------------
Init ==
    /\ tasks = <<>>
    /\ assignments = {}
    /\ dependencies = {}
    /\ tags = {}
    /\ task_tags = {}
    /\ history = {}
    /\ seq = [task |-> 1, assignment |-> 1, dependency |-> 1, tag |-> 1, history |-> 1]
    /\ redis = <<>>
    /\ now = 0
    /\ last = [n |-> 0, op |-> "init", outcome |-> "ok"]
    /\ ghost = [analytics |-> Null, created |-> <<>>, mutated |-> Null, cached |-> <<>>,
                initial |-> <<>>]
    /\ redis_up = TRUE
    /\ inflight = [p \in Procs |-> Idle]

\* the clock advances between requests
Tick(seconds) ==
    /\ now < MaxTicks * seconds
    /\ now' = now + seconds
    /\ UNCHANGED <<store, seq, redis, last, ghost, redis_up, inflight>>

\* the cache store stops answering, or answers again, between two requests
RedisFails ==
    /\ redis_up
    /\ redis_up' = FALSE
    /\ UNCHANGED <<store, seq, redis, now, last, ghost, inflight>>

RedisRecovers ==
    /\ ~redis_up
    /\ redis_up' = TRUE
    /\ UNCHANGED <<store, seq, redis, now, last, ghost, inflight>>

\* TaskService.create_task (POST /tasks/), given the names its tag lookups
\* did not find
CreateTaskWith(input, fresh) ==
    LET t == seq.task
        newTags == TagRows(fresh)
        allTags == tags \cup newTags
        row == [status |-> Some(input.status), priority |-> Some(input.priority),
                due_date |-> input.due_date, created_at |-> now, updated_at |-> now]
        newTasks == [x \in (DOMAIN tasks) \cup {t} |-> IF x = t THEN row ELSE tasks[x]]
        \* the foreign keys and the unique constraint checked by the commit
        fkOk == /\ Range(input.assignee_ids) \subseteq Users
                /\ TasksExist(Range(input.dependency_ids) \ {t})
        \* db.flush() has sent the INSERT of the task
        written == [Tables EXCEPT !.tasks = newTasks]
        request == [n |-> last.n + 1, op |-> "create", id |-> t, input |-> input,
                    before |-> [store |-> store]]
    IN
    IF fkOk /\ TagNamesUnique(allTags)
       THEN /\ tasks' = newTasks
            /\ assignments' = assignments \cup NewAssignments(t, input.assignee_ids)
            /\ tags' = allTags
            /\ task_tags' = task_tags \cup
                    {[task_id |-> t, tag_id |-> g] : g \in TagIdsFor(allTags, input.tag_names)}
            /\ dependencies' = dependencies \cup NewDependencies(t, input.dependency_ids)
            /\ seq' = [seq EXCEPT !.task = @ + 1,
                                  !.assignment = @ + Len(input.assignee_ids),
                                  !.dependency = @ + Len(input.dependency_ids),
                                  !.tag = @ + Cardinality(newTags)]
            /\ redis' = IF redis_up THEN InvalidateTaskCache(redis) ELSE redis
            /\ last' = request @@ [outcome |-> CacheOutcome]
            /\ UNCHANGED <<history, now>>
       ELSE /\ Persist(Rollback(written))
            /\ last' = request @@ [outcome |-> "error"]
            /\ UNCHANGED <<seq, redis, now>>

CreateTask(input) == CreateTaskWith(input, FreshTagNames(input.tag_names))

\* get_task: the query for the task, .first() of which is the task or None
QueryTask(t) == IF t \in DOMAIN tasks THEN Some(LoadedTask(t)) ELSE Null

\* get_task from "if task:" on, given the result of its query
CacheTask(t, task) ==
    IF task = Null
    THEN /\ last' = [n |-> last.n + 1, op |-> "get", id |-> t, outcome |-> "not_found",
                     source |-> "store"]
         /\ UNCHANGED <<store, seq, redis, now>>
    ELSE IF ~redis_up
    THEN /\ last' = [n |-> last.n + 1, op |-> "get", id |-> t, outcome |-> "cache_error",
                     source |-> "none"]
         /\ UNCHANGED <<store, seq, redis, now>>
    ELSE /\ redis' = RedisSetex(redis, TaskKey(t), TaskCacheTTL, DumpsTask(Val(task)))
         /\ last' = [n |-> last.n + 1, op |-> "get", id |-> t, outcome |-> "ok", source |-> "store",
                     result |-> Val(task)]
         /\ UNCHANGED <<store, seq, now>>

\* get_task up to "if cached:": the request is answered without a query
CacheAnswers(t) == ~redis_up \/ RedisGet(TaskKey(t)) # Null

\* TaskService.get_task behind GET /tasks/{task_id}
GetTask(t) ==
    LET cached == RedisGet(TaskKey(t)) IN
    IF ~redis_up
    THEN /\ last' = [n |-> last.n + 1, op |-> "get", id |-> t, outcome |-> "cache_error",
                     source |-> "none"]
         /\ UNCHANGED <<store, seq, redis, now>>
    ELSE IF cached # Null
    THEN /\ last' = [n |-> last.n + 1, op |-> "get", id |-> t, outcome |-> "ok", source |-> "cache",
                     result |-> Loads(Val(cached))]
         /\ UNCHANGED <<store, seq, redis, now>>
    ELSE CacheTask(t, QueryTask(t))

\* faulty variant: the delete takes the history of every task
HistoryAfterDelete_None(t) == {}

\* history = relationship("TaskHistory", ..., cascade="all, delete-orphan"):
\* the rows of task_history left by the delete of task t
HistoryAfterDelete(t) == {h \in history : h.task_id # t}

\* delete_task: the query for the task finds none
DeleteMissing(t) ==
    /\ last' = [n |-> last.n + 1, op |-> "delete", id |-> t, outcome |-> "not_found",
                before |-> [store |-> store]]
    /\ UNCHANGED <<store, seq, redis, now>>

\* delete_task: db.delete(task) and db.commit(), given the rows of blocked_by
\* the session loads.  The delete cascades to assignees, dependencies and
\* history; the rows of blocked_by (no cascade) are detached by setting
\* depends_on_task_id to NULL, which the NOT NULL column refuses.  The store
\* removes the rows that reference the task (ondelete="CASCADE").
DeleteFlush(t, blocked_by) ==
    LET request == [n |-> last.n + 1, op |-> "delete", id |-> t,
                    before |-> [store |-> store]]
    IN
    IF t \notin DOMAIN tasks \/ blocked_by # {}
    THEN /\ Persist(Rollback(Tables))
         /\ last' = request @@ [outcome |-> "error"]
         /\ UNCHANGED <<seq, redis, now>>
    ELSE /\ tasks' = [x \in (DOMAIN tasks) \ {t} |-> tasks[x]]
         /\ assignments' = {a \in assignments : a.task_id # t}
         /\ dependencies' = {d \in dependencies : d.task_id # t /\ d.depends_on_task_id # t}
         /\ history' = HistoryAfterDelete(t)
         /\ task_tags' = {x \in task_tags : x.task_id # t}
         /\ redis' = IF redis_up THEN InvalidateTaskCache(redis) ELSE redis
         /\ last' = request @@ [outcome |-> CacheOutcome]
         /\ UNCHANGED <<tags, seq, now>>

\* the rows of blocked_by that are not rows of dependencies too
BlockedByRows(t) == {d \in dependencies : d.depends_on_task_id = t /\ d.task_id # t}

\* delete_task (DELETE /tasks/{task_id})
DeleteTask(t) ==
    IF t \notin DOMAIN tasks THEN DeleteMissing(t) ELSE DeleteFlush(t, BlockedByRows(t))

\* faulty variant: every scalar field supplied counts as changed
ChangedFields_AllSet(row, input) ==
    SelectSeq(FieldOrder, LAMBDA f : f \in ScalarFields /\ f \in DOMAIN input)

\* the scalar fields of an update whose supplied value differs from the one
\* of the task the request loaded, in the order update_task meets them
ChangedFields(row, input) ==
    SelectSeq(FieldOrder, LAMBDA f : /\ f \in ScalarFields
                                     /\ f \in DOMAIN input
                                     /\ row[f] # input[f])

\* the TaskHistory rows written for a list of (field, old, new) changes
HistoryRows(t, user_id, changes, first_id) ==
    {[id |-> first_id + (k - 1), task_id |-> t, user_id |-> user_id,
      field_changed |-> changes[k].field, old_value |-> changes[k].old,
      new_value |-> changes[k].new, changed_at |-> now] : k \in 1 .. Len(changes)}

\* updated_at = Column(..., onupdate=datetime.utcnow): the column is set when
\* the flush emits an UPDATE of the task row, which it does only for a row
\* with a modified column
UpdatedAt(old_row, new_row) ==
    IF new_row # old_row THEN now ELSE old_row.updated_at

\* faulty variant: the cache entries are dropped before the task is looked up
UpdateMissing_Invalidates(t, input) ==
    /\ last' = [n |-> last.n + 1, op |-> "update", id |-> t, input |-> input,
                outcome |-> "not_found",
                before |-> [store |-> store, seq |-> seq, redis |-> redis]]
    /\ redis' = RedisDelete(InvalidateTaskCache(redis), TaskKey(t))
    /\ UNCHANGED <<store, seq, now>>

\* TaskService.update_task: the query for the task finds none ("return None")
UpdateMissing(t, input) ==
    /\ last' = [n |-> last.n + 1, op |-> "update", id |-> t, input |-> input,
                outcome |-> "not_found",
                before |-> [store |-> store, seq |-> seq, redis |-> redis]]
    /\ UNCHANGED <<store, seq, redis, now>>

\* the tag names an update sets
UpdateTagNames(input) ==
    IF "tag_names" \in DOMAIN input /\ input.tag_names # Null
    THEN Val(input.tag_names) ELSE <<>>

\* TaskService.update_task from its loop on, given the task row its query
\* loaded and the names its tag lookups did not find.  old_value and the
\* comparison come from the loaded row; the flush at db.commit() sends an
\* UPDATE of the columns the loop has set.
\* input is task_data.dict(exclude_unset=True): a record of the fields set
UpdateTaskWith(t, input, user_id, row, fresh) ==
    LET setAssignees == "assignee_ids" \in DOMAIN input /\ input.assignee_ids # Null
        setTags == "tag_names" \in DOMAIN input /\ input.tag_names # Null
        \* a collection field set to None falls to getattr(task, field)
        attributeError == \E f \in {"assignee_ids", "tag_names"} :
                              f \in DOMAIN input /\ input[f] = Null
        newIds == IF setAssignees THEN Val(input.assignee_ids) ELSE <<>>
        newNames == UpdateTagNames(input)
        fkOk == Range(newIds) \subseteq Users
        changed == ChangedFields(row, input)
        changes == [k \in 1 .. Len(changed) |->
                      [field |-> changed[k], old |-> Str(changed[k], row[changed[k]]),
                       new |-> Str(changed[k], input[changed[k]])]]
        \* the task of the session after the loop
        loadedNew == [f \in DOMAIN row |->
                         IF f \in Range(changed) THEN input[f] ELSE row[f]]
        \* the row of the store after the UPDATE
        current == IF t \in DOMAIN tasks THEN tasks[t] ELSE row
        newRow == [f \in DOMAIN current |->
                      IF f \in Range(changed) THEN input[f] ELSE current[f]]
        newTags == TagRows(fresh)
        allTags == tags \cup newTags
        before == [assignment_ids |-> {a.id : a \in {x \in assignments : x.task_id = t}},
                   assignees |-> AssigneesOf(t), tags |-> TagNamesOf(t),
                   history_ids |-> {h.id : h \in history}, row |-> row]
        \* query(TaskAssignment)...delete() has sent its DELETE
        written == [Tables EXCEPT !.assignments =
                       IF setAssignees THEN {a \in assignments : a.task_id # t} ELSE @]
    IN
    IF attributeError \/ ~fkOk \/ ~TagNamesUnique(allTags) \/ t \notin DOMAIN tasks
       THEN /\ Persist(Rollback(written))
            /\ last' = [n |-> last.n + 1, op |-> "update", id |-> t, input |-> input,
                        outcome |-> "error", before |-> [store |-> store]]
            /\ UNCHANGED <<seq, redis, now>>
       ELSE /\ tasks' = [tasks EXCEPT ![t] =
                            [newRow EXCEPT !.updated_at =
                                IF changed = <<>> THEN @ ELSE UpdatedAt(row, loadedNew)]]
            /\ assignments' =
                 IF setAssignees
                 THEN ReplaceAssignments(t, newIds)
                 ELSE assignments
            /\ tags' = allTags
            /\ task_tags' =
                 IF setTags
                 THEN {x \in task_tags : x.task_id # t} \cup
                      {[task_id |-> t, tag_id |-> g] : g \in TagIdsFor(allTags, newNames)}
                 ELSE task_tags
            /\ history' = history \cup HistoryRows(t, user_id, changes, seq.history)
            /\ seq' = [seq EXCEPT !.history = @ + Len(changed),
                                  !.assignment = @ + Len(newIds),
                                  !.tag = @ + Cardinality(newTags)]
            /\ redis' = IF redis_up
                        THEN RedisDelete(InvalidateTaskCache(redis), TaskKey(t))
                        ELSE redis
            /\ last' = [n |-> last.n + 1, op |-> "update", id |-> t, input |-> input,
                        outcome |-> CacheOutcome, user_id |-> user_id, at |-> now,
                        before |-> before]
            /\ UNCHANGED <<dependencies, now>>

\* TaskService.update_task (PUT /tasks/{task_id})
UpdateTask(t, input, user_id) ==
    IF t \notin DOMAIN tasks
    THEN UpdateMissing(t, input)
    ELSE UpdateTaskWith(t, input, user_id, tasks[t], FreshTagNames(UpdateTagNames(input)))

\* faulty variant: a status entry is recorded whenever a status is given
BulkChanges_NoCompare(t, input) ==
    (IF input.status # Null
     THEN <<[field |-> "status", old |-> Str("status", tasks[t].status),
             new |-> Str("status", input.status)]>>
     ELSE <<>>)
    \o
    (IF input.priority # Null /\ tasks[t].priority # input.priority
     THEN <<[field |-> "priority", old |-> Str("priority", tasks[t].priority),
             new |-> Str("priority", input.priority)]>>
     ELSE <<>>)
    \o
    (IF input.assignee_ids # Null
     THEN <<[field |-> "assignees", old |-> EmptyStr, new |-> Join(Val(input.assignee_ids))]>>
     ELSE <<>>)

\* the change records bulk_update_tasks collects for one task
BulkChanges(t, input) ==
    (IF input.status # Null /\ tasks[t].status # input.status
     THEN <<[field |-> "status", old |-> Str("status", tasks[t].status),
             new |-> Str("status", input.status)]>>
     ELSE <<>>)
    \o
    (IF input.priority # Null /\ tasks[t].priority # input.priority
     THEN <<[field |-> "priority", old |-> Str("priority", tasks[t].priority),
             new |-> Str("priority", input.priority)]>>
     ELSE <<>>)
    \o
    (IF input.assignee_ids # Null
     THEN <<[field |-> "assignees", old |-> EmptyStr, new |-> Join(Val(input.assignee_ids))]>>
     ELSE <<>>)

\* the rows bulk_update_tasks writes for the loaded tasks, taken in turn
\* (ids is the list of loaded task ids; the counters continue from one task
\* to the next)
RECURSIVE BulkRows(_, _, _, _, _)
BulkRows(ids, input, user_id, first_history, first_assignment) ==
    IF ids = <<>> THEN [history |-> {}, assignments |-> {}, count |-> 0]
    ELSE LET t == Head(ids)
             changes == BulkChanges(t, input)
             newIds == IF input.assignee_ids # Null THEN Val(input.assignee_ids) ELSE <<>>
             rest == BulkRows(Tail(ids), input, user_id, first_history + Len(changes),
                              first_assignment + Len(newIds))
         IN [history |-> HistoryRows(t, user_id, changes, first_history) \cup rest.history,
             assignments |->
                 {[id |-> first_assignment + (i - 1), task_id |-> t, user_id |-> newIds[i]] :
                     i \in 1 .. Len(newIds)} \cup rest.assignments,
             count |-> (IF changes # <<>> THEN 1 ELSE 0) + rest.count]

\* TaskService.bulk_update_tasks (POST /tasks/bulk-update)
BulkUpdateTasks(input, user_id) ==
    LET loaded == SetToSeq(Range(input.task_ids) \cap DOMAIN tasks)
        rows == BulkRows(loaded, input, user_id, seq.history, seq.assignment)
        replace == input.assignee_ids # Null
        fkOk == replace => Range(Val(input.assignee_ids)) \subseteq Users
        newRow(t) == [tasks[t] EXCEPT
                        !.status = IF input.status # Null THEN input.status ELSE @,
                        !.priority = IF input.priority # Null THEN input.priority ELSE @]
        before == [history_ids |-> {h.id : h \in history}, tasks |-> tasks]
        \* query(TaskAssignment)...delete() has sent its DELETE for the first task
        written == [Tables EXCEPT !.assignments =
                       {a \in @ : loaded = <<>> \/ a.task_id # Head(loaded)}]
    IN
    IF ~fkOk /\ loaded # <<>>
       THEN /\ Persist(Rollback(written))
            /\ last' = [n |-> last.n + 1, op |-> "bulk_update", input |-> input,
                        outcome |-> "error", before |-> [store |-> store]]
            /\ UNCHANGED <<seq, redis, now>>
       ELSE /\ tasks' = [t \in DOMAIN tasks |->
                            IF t \in Range(loaded)
                            THEN [newRow(t) EXCEPT !.updated_at = UpdatedAt(tasks[t], newRow(t))]
                            ELSE tasks[t]]
            /\ assignments' =
                 IF replace
                 THEN {a \in assignments : a.task_id \notin Range(loaded)} \cup rows.assignments
                 ELSE assignments
            /\ history' = history \cup rows.history
            /\ seq' = [seq EXCEPT !.history = @ + Cardinality(rows.history),
                                  !.assignment = @ + Cardinality(rows.assignments)]
            /\ redis' = IF redis_up THEN InvalidateTaskCache(redis) ELSE redis
            /\ last' = [n |-> last.n + 1, op |-> "bulk_update", input |-> input,
                        outcome |-> CacheOutcome, user_id |-> user_id, at |-> now,
                        result |-> rows.count, before |-> before]
            /\ UNCHANGED <<dependencies, tags, task_tags, now>>

\* faulty variant: the check for an existing edge is skipped
DependencyExists_Never(t, d) == FALSE

\* the query for an existing TaskDependency of the ordered pair
DependencyExists(t, d) ==
    \E x \in dependencies : x.task_id = t /\ x.depends_on_task_id = d

\* the request record of add_task_dependency
\* (repeats: the request before this one added the same ordered pair)
AddRequest(t, d) ==
    [n |-> last.n + 1, op |-> "add_dependency", id |-> t, depends_on |-> d,
     repeats |-> (/\ last.op = "add_dependency"
                  /\ last.outcome = "ok"
                  /\ last.id = t
                  /\ last.depends_on = d),
     before |-> [store |-> store, seq |-> seq]]

\* add_task_dependency: the checks refuse the request (404, 400)
AddRefused(t, d) ==
    t \notin DOMAIN tasks \/ d \notin DOMAIN tasks \/ DependencyExists(t, d)

\* add_task_dependency: db.add(dependency) and db.commit()
InsertDependency(t, d) ==
    IF TasksExist({t, d})
    THEN /\ dependencies' = dependencies \cup NewDependencies(t, <<d>>)
         /\ seq' = [seq EXCEPT !.dependency = @ + 1]
         /\ last' = AddRequest(t, d) @@ [outcome |-> "ok"]
         /\ UNCHANGED <<tasks, assignments, tags, task_tags, history, redis, now>>
    ELSE /\ Persist(Rollback([Tables EXCEPT !.dependencies = @ \cup NewDependencies(t, <<d>>)]))
         /\ last' = AddRequest(t, d) @@ [outcome |-> "error"]
         /\ UNCHANGED <<seq, redis, now>>

\* add_task_dependency (POST /tasks/{task_id}/dependencies/{depends_on_task_id})
AddTaskDependency(t, d) ==
    IF t \notin DOMAIN tasks \/ d \notin DOMAIN tasks
    THEN /\ last' = AddRequest(t, d) @@ [outcome |-> "not_found"]
         /\ UNCHANGED <<store, seq, redis, now>>
    ELSE IF DependencyExists(t, d)
    THEN /\ last' = AddRequest(t, d) @@ [outcome |-> "conflict"]
         /\ UNCHANGED <<store, seq, redis, now>>
    ELSE InsertDependency(t, d)

\* remove_task_dependency (DELETE /tasks/{task_id}/dependencies/{depends_on_task_id})
\* .first() picks one of the matching rows
RemoveTaskDependency(t, d) ==
    LET matching == {x \in dependencies : x.task_id = t /\ x.depends_on_task_id = d} IN
    IF matching = {}
    THEN /\ last' = [n |-> last.n + 1, op |-> "remove_dependency", id |-> t, depends_on |-> d,
                     outcome |-> "not_found"]
         /\ UNCHANGED <<store, seq, redis, now>>
    ELSE \E x \in matching :
         /\ dependencies' = dependencies \ {x}
         /\ last' = [n |-> last.n + 1, op |-> "remove_dependency", id |-> t, depends_on |-> d, outcome |-> "ok"]
         /\ UNCHANGED <<tasks, assignments, tags, task_tags, history, seq, redis, now>>

----------------------------------------------------------------------------
(* Filter, analytics and timeline *)

\* "if filters.status:" is false for None and for an empty list
Truthy(o) == o # Null /\ Val(o) # <<>>

\* the column-level conditions of filter_tasks that are present, evaluated on
\* task t (a comparison with a NULL column is not true)
Conditions(t, filters) ==
    (IF Truthy(filters.status)
     THEN <<tasks[t].status \cap Range(Val(filters.status)) # {}>> ELSE <<>>)
    \o
    (IF Truthy(filters.priority)
     THEN <<tasks[t].priority \cap Range(Val(filters.priority)) # {}>> ELSE <<>>)
    \o
    (IF filters.due_date_from # Null
     THEN <<\E d \in tasks[t].due_date : d >= Val(filters.due_date_from)>> ELSE <<>>)
    \o
    (IF filters.due_date_to # Null
     THEN <<\E d \in tasks[t].due_date : d <= Val(filters.due_date_to)>> ELSE <<>>)
    \o
    (IF filters.created_after # Null
     THEN <<tasks[t].created_at >= Val(filters.created_after)>> ELSE <<>>)

\* faulty variant: under OR the joined criteria are alternatives like the others
FilterResult_UniformOr(filters) ==
    {t \in DOMAIN tasks :
        LET joins == (IF Truthy(filters.assignee_ids)
                      THEN <<AssigneesOf(t) \cap Range(Val(filters.assignee_ids)) # {}>>
                      ELSE <<>>)
                     \o
                     (IF Truthy(filters.tags)
                      THEN <<TagNamesOf(t) \cap Range(Val(filters.tags)) # {}>> ELSE <<>>)
            conditions == Conditions(t, filters) \o joins
        IN conditions # <<>> =>
              IF filters.logic = "AND"
              THEN \A i \in 1 .. Len(conditions) : conditions[i]
              ELSE \E i \in 1 .. Len(conditions) : conditions[i]}

\* the rows query.distinct().all() returns, as the set of their ids
FilterResult(filters) ==
    {t \in DOMAIN tasks :
        /\ Truthy(filters.assignee_ids) =>
              AssigneesOf(t) \cap Range(Val(filters.assignee_ids)) # {}
        /\ Truthy(filters.tags) => TagNamesOf(t) \cap Range(Val(filters.tags)) # {}
        /\ LET conditions == Conditions(t, filters) IN
           conditions # <<>> =>
              IF filters.logic = "AND"
              THEN \A i \in 1 .. Len(conditions) : conditions[i]
              ELSE \E i \in 1 .. Len(conditions) : conditions[i]}

\* TaskService.filter_tasks (POST /tasks/filter)
FilterTasks(filters) ==
    /\ last' = [n |-> last.n + 1, op |-> "filter", input |-> filters, outcome |-> "ok",
                result |-> FilterResult(filters)]
    /\ UNCHANGED <<store, seq, redis, now>>

\* Task.due_date < datetime.utcnow(), Task.status != TaskStatus.DONE
\* (SQL comparisons: a NULL due_date or a NULL status does not satisfy them)
IsOverdue(t) ==
    /\ \E d \in tasks[t].due_date : d < now
    /\ \E st \in tasks[t].status : st # "done"

\* func.count(Task.id) grouped by a column, keyed by str(column value)
CountBy(field) ==
    [k \in {Str(field, tasks[t][field]).text : t \in DOMAIN tasks} |->
        Cardinality({t \in DOMAIN tasks : Str(field, tasks[t][field]).text = k})]

\* the result dict of get_analytics, computed from the store
\* (func.case((cond, 1)) is read as CASE WHEN cond THEN 1 END)
ComputeAnalytics ==
    [total_tasks |-> Cardinality(DOMAIN tasks),
     tasks_by_status |-> CountBy("status"),
     tasks_by_priority |-> CountBy("priority"),
     overdue_tasks |-> Cardinality({t \in DOMAIN tasks : IsOverdue(t)}),
     user_task_distribution |->
        {[user |-> u,
          total_tasks |-> Cardinality({a \in assignments : a.user_id = u}),
          overdue_tasks |->
              Cardinality({a \in assignments : a.user_id = u /\ IsOverdue(a.task_id)})] :
            u \in {a.user_id : a \in assignments}}]

\* TaskService.get_analytics (GET /tasks/analytics/dashboard)
GetAnalytics ==
    LET cached == RedisGet(AnalyticsKey) IN
    IF ~redis_up
    THEN /\ last' = [n |-> last.n + 1, op |-> "analytics", outcome |-> "cache_error",
                     source |-> "none", at |-> now, prev |-> ghost.analytics,
                     mutated |-> ghost.mutated]
         /\ UNCHANGED <<store, seq, redis, now>>
    ELSE IF cached # Null
    THEN /\ last' = [n |-> last.n + 1, op |-> "analytics", outcome |-> "ok", source |-> "cache",
                     result |-> Loads(Val(cached)), at |-> now,
                     expires |-> redis[AnalyticsKey].expires, prev |-> ghost.analytics,
                     mutated |-> ghost.mutated]
         /\ UNCHANGED <<store, seq, redis, now>>
    ELSE /\ redis' = RedisSetex(redis, AnalyticsKey, AnalyticsCacheTTL,
                                DumpsDict(ComputeAnalytics))
         /\ last' = [n |-> last.n + 1, op |-> "analytics", outcome |-> "ok", source |-> "store",
                     result |-> ComputeAnalytics, at |-> now,
                     expires |-> now + AnalyticsCacheTTL, prev |-> ghost.analytics,
                     mutated |-> ghost.mutated]
         /\ UNCHANGED <<store, seq, now>>

\* faulty variant: the window is not applied
TimelineRows_NoWindow(user_id, days) ==
    {h \in history :
        /\ h.task_id \in {a.task_id : a \in {x \in assignments : x.user_id = user_id}}
        /\ h.task_id \in DOMAIN tasks
        /\ h.user_id \in Users}

\* the rows of the timeline query: history of the tasks assigned to the user,
\* changed within the window, joined to existing tasks and users
TimelineRows(user_id, days) ==
    {h \in history :
        /\ h.task_id \in {a.task_id : a \in {x \in assignments : x.user_id = user_id}}
        /\ h.changed_at >= now - days * SecondsPerDay
        /\ h.task_id \in DOMAIN tasks
        /\ h.user_id \in Users}

\* the orders ORDER BY changed_at DESC allows for a set of rows
DescendingOrders(rows) ==
    {r \in [1 .. Cardinality(rows) -> rows] :
        /\ \A i, j \in DOMAIN r : i # j => r[i] # r[j]
        /\ \A i, j \in DOMAIN r : i < j => r[i].changed_at >= r[j].changed_at}

\* TaskService.get_user_timeline (GET /tasks/timeline/me)
GetUserTimeline(user_id, days) ==
    \E r \in DescendingOrders(TimelineRows(user_id, days)) :
        /\ last' = [n |-> last.n + 1, op |-> "timeline", user_id |-> user_id, days |-> days,
                    outcome |-> "ok", at |-> now, result |-> r]
        /\ UNCHANGED <<store, seq, redis, now>>

----------------------------------------------------------------------------
(* Requests of two workers that overlap: a worker reads for its request in   *)
(* one step and commits in a later one, and the other worker's steps may     *)
(* come in between.  The reads of a request see what was committed before    *)
(* them; the constraints of the store are checked when the request commits. *)

\* a worker takes a request and holds it until its commit
Holds(p, request) ==
    /\ inflight[p] = Idle
    /\ inflight' = [inflight EXCEPT ![p] = request]
    /\ UNCHANGED <<store, seq, redis, now, last, ghost, redis_up>>

\* a worker commits the request it holds and answers it
Answers(p, op) ==
    /\ inflight[p].op = op
    /\ inflight' = [inflight EXCEPT ![p] = Idle]
    /\ UNCHANGED redis_up

\* create_task up to the end of its tag loop
BeginCreate(p, input) ==
    Holds(p, [op |-> "create", input |-> input, fresh |-> FreshTagNames(input.tag_names)])

\* create_task from db.commit() on
CommitCreate(p) ==
    /\ Answers(p, "create")
    /\ CreateTaskWith(inflight[p].input, inflight[p].fresh)

\* add_task_dependency up to the check for an existing edge
BeginAddDependency(p, t, d) ==
    /\ inflight[p] = Idle
    /\ IF AddRefused(t, d)
       THEN AddTaskDependency(t, d) /\ UNCHANGED <<ghost, redis_up, inflight>>
       ELSE Holds(p, [op |-> "add_dependency", id |-> t, depends_on |-> d])

\* add_task_dependency from db.add(dependency) on
CommitAddDependency(p) ==
    /\ Answers(p, "add_dependency")
    /\ InsertDependency(inflight[p].id, inflight[p].depends_on)

\* delete_task up to db.delete(task), with the rows of blocked_by as the
\* session finds them
BeginDelete(p, t) ==
    /\ inflight[p] = Idle
    /\ IF t \notin DOMAIN tasks
       THEN DeleteMissing(t) /\ UNCHANGED <<ghost, redis_up, inflight>>
       ELSE Holds(p, [op |-> "delete", id |-> t, blocked_by |-> BlockedByRows(t)])

\* delete_task from db.commit() on
CommitDelete(p) ==
    /\ Answers(p, "delete")
    /\ DeleteFlush(inflight[p].id, inflight[p].blocked_by)

\* get_task up to the result of its query
BeginGet(p, t) ==
    /\ inflight[p] = Idle
    /\ IF CacheAnswers(t)
       THEN GetTask(t) /\ UNCHANGED <<ghost, redis_up, inflight>>
       ELSE Holds(p, [op |-> "get", id |-> t, task |-> QueryTask(t)])

\* get_task from "if task:" on
CommitGet(p) ==
    /\ Answers(p, "get")
    /\ CacheTask(inflight[p].id, inflight[p].task)

\* update_task up to the end of its loop
BeginUpdate(p, t, input, user_id) ==
    /\ inflight[p] = Idle
    /\ IF t \notin DOMAIN tasks
       THEN UpdateMissing(t, input) /\ UNCHANGED <<ghost, redis_up, inflight>>
       ELSE Holds(p, [op |-> "update", id |-> t, input |-> input, user_id |-> user_id,
                      row |-> tasks[t], fresh |-> FreshTagNames(UpdateTagNames(input))])

\* update_task from db.commit() on
CommitUpdate(p) ==
    /\ Answers(p, "update")
    /\ UpdateTaskWith(inflight[p].id, inflight[p].input, inflight[p].user_id,
                      inflight[p].row, inflight[p].fresh)

\* the requests taken and not yet answered
Held == {p \in Procs : inflight[p] # Idle}

----------------------------------------------------------------------------
(* History variable, for stating properties over several requests *)

MutatingOps == {"create", "update", "bulk_update", "delete", "add_dependency",
                "remove_dependency"}

\* the operations of the service that end with _invalidate_task_cache
TaskMutations == {"create", "update", "bulk_update", "delete"}

\* the request's transaction was committed
Committed(r) == r.outcome \in {"ok", "cache_error"}

\* ghost.analytics: the latest analytics response and the expiry of the cache
\*   entry it wrote or read, while no mutating request has succeeded since
\* ghost.created: the create input of each task, while no other mutating
\*   request has succeeded since
\* ghost.mutated: set once a create, update, bulk update or delete has
\*   committed and no analytics request has been served since; it holds the
\*   analytics response that was current at the first of them
\* ghost.cached: for each task, the task as loaded by the get that last wrote
\*   its cache entry
\* ghost.initial: for each task, the row its create inserted
Observe ==
    ghost' =
        IF last'.op = "analytics" /\ last'.outcome = "ok"
        THEN [ghost EXCEPT !.analytics =
                 Some([result |-> last'.result, at |-> last'.at,
                       expires |-> last'.expires]),
                           !.mutated = Null]
        ELSE IF last'.op = "get" /\ last'.outcome = "ok" /\ last'.source = "store"
        THEN [ghost EXCEPT !.cached =
                 [t \in (DOMAIN ghost.cached) \cup {last'.id} |->
                     IF t = last'.id THEN last'.result ELSE ghost.cached[t]]]
        ELSE IF last'.op = "create" /\ Committed(last')
        THEN [analytics |-> Null,
              created |-> [t \in (DOMAIN ghost.created) \cup {last'.id} |->
                             IF t = last'.id THEN last'.input ELSE ghost.created[t]],
              mutated |-> IF ghost.mutated # Null THEN ghost.mutated
                          ELSE Some([prev |-> ghost.analytics]),
              cached |-> ghost.cached,
              initial |-> [t \in (DOMAIN ghost.initial) \cup {last'.id} |->
                             IF t = last'.id THEN tasks'[t] ELSE ghost.initial[t]]]
        ELSE IF last'.op \in MutatingOps /\ Committed(last')
        THEN [analytics |-> Null, created |-> <<>>,
              mutated |-> IF last'.op \notin TaskMutations \/ ghost.mutated # Null
                          THEN ghost.mutated
                          ELSE Some([prev |-> ghost.analytics]),
              cached |-> ghost.cached, initial |-> ghost.initial]
        ELSE ghost

\* a request served by one worker from its first query to its response
Served == Observe /\ UNCHANGED <<redis_up, inflight>>

----------------------------------------------------------------------------
(* Requests offered to the service *)

NoFilter == [status |-> Null, priority |-> Null, assignee_ids |-> Null, tags |-> Null,
             due_date_from |-> Null, due_date_to |-> Null, created_after |-> Null,
             logic |-> "AND"]

\* a run serves at most MaxRequests requests
More == last.n < MaxRequests

(* Per-task cache and deletion *)

CreateInputs ==
    [status : {"todo"}, priority : {"medium"}, due_date : {Null},
     assignee_ids : {<<>>, <<1, 2>>}, tag_names : {<<"a", "b", "a">>},
     dependency_ids : {<<>>, <<1>>}]

Next ==
    \/ \E input \in CreateInputs : More /\ CreateTask(input) /\ Served
    \/ \E t \in TaskIds : More /\ GetTask(t) /\ Served
    \/ \E t \in TaskIds : More /\ DeleteTask(t) /\ Served
    \/ More /\ FilterTasks(NoFilter) /\ Served

Spec == Init /\ [][Next]_vars

(* Update: assignment replacement, history, updated_at *)

UpdateCreateInputs ==
    [status : {"todo"}, priority : {"medium"}, due_date : {Null},
     assignee_ids : {<<>>, <<1>>}, tag_names : {<<>>}, dependency_ids : {<<>>}]

UpdateInputs ==
    {[status |-> Some("todo")], [status |-> Some("done")],
     [assignee_ids |-> Some(<<1>>)], [assignee_ids |-> Some(<<2, 2>>)],
     [status |-> Some("todo"), assignee_ids |-> Some(<<>>), tag_names |-> Null],
     [status |-> Some("done"), priority |-> Some("medium"), due_date |-> Some(TickSeconds),
      assignee_ids |-> Some(<<2>>)]}

NextUpdate ==
    \/ Tick(TickSeconds)
    \/ \E input \in UpdateCreateInputs :
          last.n < MaxUpdateRequests /\ CreateTask(input) /\ Served
    \/ \E t \in TaskIds, input \in UpdateInputs :
          last.n < MaxUpdateRequests /\ UpdateTask(t, input, 1) /\ Served

SpecUpdate == Init /\ [][NextUpdate]_vars

(* Bulk update: the count returned and the history written *)

BulkCreateInputs ==
    [status : {"todo", "done"}, priority : {"medium"}, due_date : {Null},
     assignee_ids : {<<>>, <<1>>}, tag_names : {<<>>}, dependency_ids : {<<>>}]

BulkInputs ==
    [task_ids : {<<1, 2, 3, 1>>}, status : {Null, Some("done")}, priority : {Null, Some("high")},
     assignee_ids : {Null, Some(<<>>), Some(<<1>>)}]

NextBulk ==
    \/ \E input \in BulkCreateInputs :
          last.n < MaxBulkRequests /\ CreateTask(input) /\ Served
    \/ \E input \in BulkInputs :
          last.n < MaxBulkRequests /\ BulkUpdateTasks(input, 1) /\ Served

SpecBulk == Init /\ [][NextBulk]_vars

(* Dependency edges *)

DependencyCreateInputs ==
    [status : {"todo"}, priority : {"medium"}, due_date : {Null},
     assignee_ids : {<<>>}, tag_names : {<<>>}, dependency_ids : {<<>>, <<1, 1>>}]

NextDependencies ==
    \/ \E input \in DependencyCreateInputs :
          last.n < MaxDependencyRequests /\ CreateTask(input) /\ Served
    \/ \E t, d \in TaskIds :
          last.n < MaxDependencyRequests /\ AddTaskDependency(t, d) /\ Served
    \/ \E t, d \in TaskIds :
          last.n < MaxDependencyRequests /\ RemoveTaskDependency(t, d) /\ Served

SpecDependencies == Init /\ [][NextDependencies]_vars

(* Filter *)

FilterCreateInputs ==
    [status : {"todo", "done"}, priority : {"medium", "high"}, due_date : {Null},
     assignee_ids : {<<>>, <<1>>}, tag_names : {<<>>, <<"a">>}, dependency_ids : {<<>>}]

FilterInputs ==
    [status : {Some(<<"done">>)}, priority : {Some(<<"high">>)},
     assignee_ids : {Null, Some(<<1>>)}, tags : {Null, Some(<<"a">>)},
     due_date_from : {Null}, due_date_to : {Null}, created_after : {Null},
     logic : {"AND", "OR"}]

NextFilter ==
    \/ \E input \in FilterCreateInputs :
          last.n < MaxFilterRequests /\ CreateTask(input) /\ Served
    \/ \E filters \in FilterInputs :
          last.n < MaxFilterRequests /\ FilterTasks(filters) /\ Served

SpecFilter == Init /\ [][NextFilter]_vars

(* Analytics and its cache *)

AnalyticsCreateInputs ==
    [status : {"todo"}, priority : {"medium"}, due_date : {Null, Some(0)},
     assignee_ids : {<<1>>}, tag_names : {<<>>}, dependency_ids : {<<>>}]

AnalyticsUpdateInputs == {[status |-> Some("done")], [status |-> Null]}

NextAnalytics ==
    \/ Tick(TickSeconds)
    \/ \E input \in AnalyticsCreateInputs :
          last.n < MaxAnalyticsRequests /\ CreateTask(input) /\ Served
    \/ \E t \in DOMAIN tasks, input \in AnalyticsUpdateInputs :
          last.n < MaxAnalyticsRequests /\ UpdateTask(t, input, 1) /\ Served
    \/ last.n < MaxAnalyticsRequests /\ GetAnalytics /\ Served

SpecAnalytics == Init /\ [][NextAnalytics]_vars

(* Timeline *)

TimelineCreateInputs ==
    [status : {"todo"}, priority : {"medium"}, due_date : {Null},
     assignee_ids : {<<1>>}, tag_names : {<<>>}, dependency_ids : {<<>>}]

TimelineUpdateInputs ==
    {[status |-> Some("done")], [status |-> Some("todo")], [assignee_ids |-> Some(<<2>>)]}

TimelineInputs == {<<1, 1>>, <<1, 2>>, <<2, 1>>}

NextTimeline ==
    \/ Tick(SecondsPerDay)
    \/ \E input \in TimelineCreateInputs :
          last.n < MaxTimelineRequests /\ CreateTask(input) /\ Served
    \/ \E t \in DOMAIN tasks, input \in TimelineUpdateInputs :
          last.n < MaxTimelineRequests /\ UpdateTask(t, input, 1) /\ Served
    \/ \E q \in TimelineInputs :
          last.n < MaxTimelineRequests /\ GetUserTimeline(q[1], q[2]) /\ Served

SpecTimeline == Init /\ [][NextTimeline]_vars

(* Cache invalidation *)

InvalidationCreateInputs ==
    [status : {"todo"}, priority : {"medium"}, due_date : {Null},
     assignee_ids : {<<>>}, tag_names : {<<>>}, dependency_ids : {<<>>}]

InvalidationUpdateInputs == {[status |-> Some("done")]}

InvalidationBulkInputs ==
    [task_ids : {<<1>>}, status : {Some("done")}, priority : {Null}, assignee_ids : {Null}]

NextInvalidation ==
    \/ \E input \in InvalidationCreateInputs :
          last.n < MaxInvalidationRequests /\ CreateTask(input) /\ Served
    \/ \E t \in TaskIds :
          last.n < MaxInvalidationRequests /\ GetTask(t) /\ Served
    \/ last.n < MaxInvalidationRequests /\ GetAnalytics /\ Served
    \/ \E t \in TaskIds, input \in InvalidationUpdateInputs :
          last.n < MaxInvalidationRequests /\ UpdateTask(t, input, 1) /\ Served
    \/ \E input \in InvalidationBulkInputs :
          last.n < MaxInvalidationRequests /\ BulkUpdateTasks(input, 1) /\ Served
    \/ \E t \in TaskIds :
          last.n < MaxInvalidationRequests /\ DeleteTask(t) /\ Served
    \/ \E t, d \in DOMAIN tasks :
          last.n < MaxInvalidationRequests /\ AddTaskDependency(t, d) /\ Served
    \/ \E t, d \in DOMAIN tasks :
          last.n < MaxInvalidationRequests /\ RemoveTaskDependency(t, d) /\ Served

SpecInvalidation == Init /\ [][NextInvalidation]_vars

(* Requests whose writes the store refuses *)

\* user 3 and task 5 do not exist
FailureCreateInputs ==
    [status : {"todo"}, priority : {"medium"}, due_date : {Null},
     assignee_ids : {<<1>>, <<1, 3>>}, tag_names : {<<"a">>},
     dependency_ids : {<<>>, <<1>>, <<5>>}]

FailureUpdateInputs ==
    {[status |-> Some("done"), assignee_ids |-> Some(<<2, 3>>)],
     [status |-> Some("done"), assignee_ids |-> Some(<<2>>), tag_names |-> Null],
     [status |-> Some("done"), assignee_ids |-> Some(<<2>>), tag_names |-> Some(<<"b">>)]}

FailureBulkInputs ==
    [task_ids : {<<1, 2>>}, status : {Some("done")}, priority : {Null},
     assignee_ids : {Some(<<3>>), Some(<<2>>)}]

NextFailures ==
    \/ \E input \in FailureCreateInputs :
          last.n < MaxFailureRequests /\ CreateTask(input) /\ Served
    \/ \E t \in DOMAIN tasks, input \in FailureUpdateInputs :
          last.n < MaxFailureRequests /\ UpdateTask(t, input, 1) /\ Served
    \/ \E input \in FailureBulkInputs :
          last.n < MaxFailureRequests /\ BulkUpdateTasks(input, 1) /\ Served
    \/ \E t \in DOMAIN tasks :
          last.n < MaxFailureRequests /\ DeleteTask(t) /\ Served
    \/ \E t, d \in DOMAIN tasks :
          last.n < MaxFailureRequests /\ AddTaskDependency(t, d) /\ Served
    \/ \E t, d \in DOMAIN tasks :
          last.n < MaxFailureRequests /\ RemoveTaskDependency(t, d) /\ Served

SpecFailures == Init /\ [][NextFailures]_vars

(* Requests served while the cache store is down *)

NextCacheFailure ==
    \/ RedisFails
    \/ RedisRecovers
    \/ \E input \in InvalidationCreateInputs :
          last.n < MaxCacheFailureRequests /\ CreateTask(input) /\ Served
    \/ \E t \in TaskIds :
          last.n < MaxCacheFailureRequests /\ GetTask(t) /\ Served
    \/ last.n < MaxCacheFailureRequests /\ GetAnalytics /\ Served
    \/ \E t \in TaskIds, input \in InvalidationUpdateInputs :
          last.n < MaxCacheFailureRequests /\ UpdateTask(t, input, 1) /\ Served
    \/ \E input \in InvalidationBulkInputs :
          last.n < MaxCacheFailureRequests /\ BulkUpdateTasks(input, 1) /\ Served
    \/ \E t \in TaskIds :
          last.n < MaxCacheFailureRequests /\ DeleteTask(t) /\ Served

SpecCacheFailure == Init /\ [][NextCacheFailure]_vars

(* Overlapping requests *)

ConcurrentCreateInputs ==
    [status : {"todo"}, priority : {"medium"}, due_date : {Null},
     assignee_ids : {<<>>}, tag_names : {<<>>, <<"a", "a">>}, dependency_ids : {<<>>}]

ConcurrentUpdateInputs == {[tag_names |-> Some(<<"a">>)]}

\* a run takes at most MaxConcurrentRequests requests
MoreConcurrent == last.n + Cardinality(Held) < MaxConcurrentRequests

NextConcurrent ==
    \/ \E p \in Procs, input \in ConcurrentCreateInputs :
          MoreConcurrent /\ BeginCreate(p, input)
    \/ \E p \in Procs : CommitCreate(p) /\ Observe
    \/ \E p \in Procs, t, d \in DOMAIN tasks :
          MoreConcurrent /\ BeginAddDependency(p, t, d)
    \/ \E p \in Procs : CommitAddDependency(p) /\ Observe
    \/ \E p \in Procs, t \in DOMAIN tasks :
          MoreConcurrent /\ BeginDelete(p, t)
    \/ \E p \in Procs : CommitDelete(p) /\ Observe
    \/ \E t \in DOMAIN tasks, input \in ConcurrentUpdateInputs :
          MoreConcurrent /\ UpdateTask(t, input, 1) /\ Served
    \/ \E t, d \in DOMAIN tasks :
          MoreConcurrent /\ RemoveTaskDependency(t, d) /\ Served

SpecConcurrent == Init /\ [][NextConcurrent]_vars

(* The life of history entries *)

HistoryCreateInputs ==
    [status : {"todo"}, priority : {"medium"}, due_date : {Null},
     assignee_ids : {<<>>}, tag_names : {<<>>}, dependency_ids : {<<>>}]

HistoryUpdateInputs == {[status |-> Some("done")], [status |-> Some("todo")]}

HistoryBulkInputs ==
    [task_ids : {<<1, 2>>}, status : {Some("in_review")}, priority : {Null},
     assignee_ids : {Null}]

NextHistory ==
    \/ \E input \in HistoryCreateInputs :
          last.n < MaxHistoryRequests /\ CreateTask(input) /\ Served
    \/ \E t \in DOMAIN tasks, input \in HistoryUpdateInputs :
          last.n < MaxHistoryRequests /\ UpdateTask(t, input, 1) /\ Served
    \/ \E input \in HistoryBulkInputs :
          last.n < MaxHistoryRequests /\ BulkUpdateTasks(input, 1) /\ Served
    \/ \E t \in DOMAIN tasks :
          last.n < MaxHistoryRequests /\ DeleteTask(t) /\ Served
    \/ \E t, d \in DOMAIN tasks :
          last.n < MaxHistoryRequests /\ AddTaskDependency(t, d) /\ Served
    \/ \E t, d \in DOMAIN tasks :
          last.n < MaxHistoryRequests /\ RemoveTaskDependency(t, d) /\ Served

SpecHistory == Init /\ [][NextHistory]_vars

(* A get or an update of a task overlapping an update of the same task *)

RaceCreateInputs ==
    [status : {"todo"}, priority : {"medium"}, due_date : {Null},
     assignee_ids : {<<>>}, tag_names : {<<>>}, dependency_ids : {<<>>}]

RaceUpdateInputs == {[status |-> Some("done")], [status |-> Some("in_review")]}

\* a run takes at most MaxRaceRequests requests
MoreRace == last.n + Cardinality(Held) < MaxRaceRequests

NextRace ==
    \/ \E input \in RaceCreateInputs :
          MoreRace /\ CreateTask(input) /\ Served
    \/ \E p \in Procs, t \in DOMAIN tasks :
          MoreRace /\ BeginGet(p, t)
    \/ \E p \in Procs : CommitGet(p) /\ Observe
    \/ \E p \in Procs, t \in DOMAIN tasks, input \in RaceUpdateInputs :
          MoreRace /\ BeginUpdate(p, t, input, 1)
    \/ \E p \in Procs : CommitUpdate(p) /\ Observe

SpecRace == Init /\ [][NextRace]_vars

----------------------------------------------------------------------------
(* Properties *)

\* the ids of the tasks deleted so far (ids are handed out once)
Deleted == (1 .. (seq.task - 1)) \ DOMAIN tasks

\* get_task returns a Task only from the store; a cache hit returns the
\* decoded cache value
ReturnsTask == last.op = "get" /\ last.outcome = "ok" /\ last.source = "store"

\* C1: once a task is deleted, a get of its id reports not-found and a filter
\* result does not contain it, whatever requests came before the delete.
C1_DeletedTaskIsGone ==
    /\ (last.op = "get" /\ last.id \in Deleted) => last.outcome = "not_found"
    /\ last.op = "filter" => last.result \cap Deleted = {}

\* C2: a get of a task that no request has changed since its creation
\* returns a task whose assignees, tag names and dependency ids are the sets
\* of the create input.
C2_GetReturnsCreateInput ==
    (last.op = "get" /\ last.id \in DOMAIN ghost.created) =>
        /\ ReturnsTask
        /\ last.result.assignees = Range(ghost.created[last.id].assignee_ids)
        /\ last.result.tags = Range(ghost.created[last.id].tag_names)
        /\ last.result.dependencies = Range(ghost.created[last.id].dependency_ids)

\* the part of C2 the store path satisfies
C2_StoreGetReturnsCreateInput ==
    (ReturnsTask /\ last.id \in DOMAIN ghost.created) =>
        /\ last.result.assignees = Range(ghost.created[last.id].assignee_ids)
        /\ last.result.tags = Range(ghost.created[last.id].tag_names)
        /\ last.result.dependencies = Range(ghost.created[last.id].dependency_ids)

\* the rows of task_assignments that belong to task t
AssignmentRows(t) == {a \in assignments : a.task_id = t}

UpdateDone == last.op = "update" /\ last.outcome = "ok"

\* C3: after an update that carries an assignee list, the assignment rows of
\* the task are the users of that list, one row per element, and none of the
\* rows that existed before the update is left.
C3_UpdateReplacesAssignments ==
    (UpdateDone /\ "assignee_ids" \in DOMAIN last.input) =>
        /\ AssigneesOf(last.id) = Range(Val(last.input.assignee_ids))
        /\ Cardinality(AssignmentRows(last.id)) = Len(Val(last.input.assignee_ids))
        /\ {a.id : a \in assignments} \cap last.before.assignment_ids = {}

\* an update replaced the assignee 1 of a task by the assignee 2
C3_Witness ==
    /\ UpdateDone
    /\ "assignee_ids" \in DOMAIN last.input
    /\ last.before.assignees = {1}
    /\ AssigneesOf(last.id) = {2}

\* no field the update supplies differs from the task's value before it
NothingDiffers ==
    /\ \A f \in ScalarFields \cap DOMAIN last.input : last.input[f] = last.before.row[f]
    /\ "assignee_ids" \in DOMAIN last.input =>
          Range(Val(last.input.assignee_ids)) = last.before.assignees
    /\ "tag_names" \in DOMAIN last.input =>
          Range(Val(last.input.tag_names)) = last.before.tags

\* C4: an update in which no supplied field differs from the current value
\* writes no history entry and sets updated_at to the time of the update.
C4_NoOpUpdateRefreshesUpdatedAt ==
    (UpdateDone /\ NothingDiffers) =>
        /\ {h.id : h \in history} = last.before.history_ids
        /\ tasks[last.id].updated_at = last.at

\* the part of C4 about the history
C4_NoOpUpdateWritesNoHistory ==
    (UpdateDone /\ NothingDiffers) => {h.id : h \in history} = last.before.history_ids

BulkDone == last.op = "bulk_update" /\ last.outcome = "ok"

\* the tasks a bulk update names that existed when it ran
BulkExisting == Range(last.input.task_ids) \cap DOMAIN last.before.tasks

\* the history entries a bulk update owes task t: one per scalar field
\* (status, priority) given with a value other than the task's, plus one when
\* an assignee list is given
BulkOwed(t) ==
    (IF last.input.status # Null /\ last.input.status # last.before.tasks[t].status
     THEN 1 ELSE 0)
    + (IF last.input.priority # Null /\ last.input.priority # last.before.tasks[t].priority
       THEN 1 ELSE 0)
    + (IF last.input.assignee_ids # Null THEN 1 ELSE 0)

\* the history rows written by the request last served
NewHistory == {h \in history : h.id \notin last.before.history_ids}

\* C5: a bulk update returns the number of existing tasks among the ids that
\* received a change record, ignoring ids of no task, and writes for each of
\* them one history entry per changed scalar field plus one when an assignee
\* list is given; it writes no other entry.
C5_BulkUpdateCountAndHistory ==
    BulkDone =>
        /\ last.result = Cardinality({t \in BulkExisting : BulkOwed(t) > 0})
        /\ \A t \in BulkExisting :
              Cardinality({h \in NewHistory : h.task_id = t}) = BulkOwed(t)
        /\ \A h \in NewHistory : h.task_id \in BulkExisting
        /\ {h.id : h \in history} \ {h.id : h \in NewHistory} = last.before.history_ids

\* a bulk update over two existing tasks and the id of no task changed one of
\* the two and left the other as it was
C5_Witness ==
    /\ BulkDone
    /\ Cardinality(BulkExisting) = 2
    /\ Range(last.input.task_ids) \ BulkExisting # {}
    /\ last.result = 1
    /\ Cardinality(NewHistory) = 1

\* the rows of task_dependencies for the ordered pair (t, d) in a table
Edges(table, t, d) == {x \in table : x.task_id = t /\ x.depends_on_task_id = d}

AddRequested == last.op = "add_dependency"

\* C6: an add of an ordered pair of existing tasks that has no edge succeeds
\* and inserts one edge; the same add made again right after it reports a
\* conflict, writes nothing, and leaves exactly one edge of the pair.
C6_SecondAddConflicts ==
    /\ (/\ AddRequested
        /\ {last.id, last.depends_on} \subseteq DOMAIN tasks
        /\ Edges(last.before.store[3], last.id, last.depends_on) = {})
       => /\ last.outcome = "ok"
          /\ Cardinality(Edges(dependencies, last.id, last.depends_on)) = 1
          /\ last.before.store[3] \subseteq dependencies
          /\ Cardinality(dependencies) = Cardinality(last.before.store[3]) + 1
    /\ (AddRequested /\ last.repeats)
       => /\ last.outcome = "conflict"
          /\ store = last.before.store
          /\ seq = last.before.seq
          /\ Cardinality(Edges(dependencies, last.id, last.depends_on)) = 1

\* the same pair of two different tasks was added twice in a row
C6_Witness ==
    /\ AddRequested
    /\ last.repeats
    /\ last.id # last.depends_on
    /\ last.outcome = "conflict"

\* a task has a status, or a priority, of the list given to the filter
HasStatusIn(t, list) == \E x \in tasks[t].status : x \in Range(list)
HasPriorityIn(t, list) == \E x \in tasks[t].priority : x \in Range(list)

\* the tasks that match a status list and a priority list under a mode
ColumnMatches(statuses, priorities, logic) ==
    {t \in DOMAIN tasks :
        IF logic = "AND"
        THEN HasStatusIn(t, statuses) /\ HasPriorityIn(t, priorities)
        ELSE HasStatusIn(t, statuses) \/ HasPriorityIn(t, priorities)}

\* a filter with a status list and a priority list and no date criterion
StatusPriorityFilter ==
    /\ last.op = "filter"
    /\ Truthy(last.input.status)
    /\ Truthy(last.input.priority)
    /\ last.input.due_date_from = Null
    /\ last.input.due_date_to = Null
    /\ last.input.created_after = Null

\* C7: a filter with a status set and a priority set returns, under AND, the
\* tasks matching both and, under OR, the tasks matching either; when a tag or
\* an assignee criterion is given too, it returns those of them that have one
\* of the tags and one of the assignees, in both modes.
C7_FilterStatusPriority ==
    StatusPriorityFilter =>
        last.result =
            {t \in ColumnMatches(Val(last.input.status), Val(last.input.priority),
                                 last.input.logic) :
                /\ Truthy(last.input.tags) =>
                      TagNamesOf(t) \cap Range(Val(last.input.tags)) # {}
                /\ Truthy(last.input.assignee_ids) =>
                      AssigneesOf(t) \cap Range(Val(last.input.assignee_ids)) # {}}

\* an OR filter with a tag criterion left out a task that matches a column
\* criterion and lacks the tag, and returned another
C7_Witness ==
    /\ StatusPriorityFilter
    /\ last.input.logic = "OR"
    /\ Truthy(last.input.tags)
    /\ last.result # {}
    /\ ColumnMatches(Val(last.input.status), Val(last.input.priority), "OR") \ last.result # {}

AnalyticsComputed == last.op = "analytics" /\ last.source = "store"

\* C8: the overdue count of a snapshot computed from the store is the number
\* of tasks whose due_date is before the time of the computation and whose
\* status is not done; a task without due_date is not counted.
C8_OverdueCount ==
    AnalyticsComputed =>
        last.result.overdue_tasks =
            Cardinality({t \in DOMAIN tasks :
                            /\ tasks[t].due_date # Null
                            /\ Val(tasks[t].due_date) < last.at
                            /\ tasks[t].status # Some("done")})

\* the same, over the tasks that have a status
C8_OverdueCountOfTasksWithStatus ==
    (AnalyticsComputed /\ \A t \in DOMAIN tasks : tasks[t].status # Null) =>
        last.result.overdue_tasks =
            Cardinality({t \in DOMAIN tasks :
                            /\ tasks[t].due_date # Null
                            /\ Val(tasks[t].due_date) < last.at
                            /\ tasks[t].status # Some("done")})

\* an analytics request made before the expiry of the cache entry of an
\* earlier one, with no mutating request served in between
AnalyticsAgain ==
    /\ last.op = "analytics"
    /\ last.prev # Null
    /\ last.at < Val(last.prev).expires

\* C9: an analytics request made within the expiry of an earlier one, with no
\* mutating request in between, is served from the cache (the store is not
\* queried again) and returns the snapshot the earlier one returned.
C9_AnalyticsServedFromCache ==
    AnalyticsAgain =>
        /\ last.source = "cache"
        /\ last.result = Val(last.prev).result

\* a second analytics request, one minute after the first, over a store that
\* holds a task
C9_Witness ==
    /\ AnalyticsAgain
    /\ last.at > Val(last.prev).at
    /\ last.source = "cache"
    /\ last.result.total_tasks > 0

\* the history entries the timeline of a user owes: those of the tasks now
\* assigned to the user, changed within the trailing days
TimelineOwed ==
    {h \in history :
        /\ last.user_id \in AssigneesOf(h.task_id)
        /\ h.changed_at >= last.at - last.days * SecondsPerDay}

\* C10: the timeline of a user holds each history entry of the tasks now
\* assigned to the user that was changed within the trailing days, once, and
\* no other entry, the latest first.
C10_UserTimeline ==
    last.op = "timeline" =>
        /\ Range(last.result) = TimelineOwed
        /\ Len(last.result) = Cardinality(TimelineOwed)
        /\ \A i, j \in 1 .. Len(last.result) :
              i < j => last.result[i].changed_at >= last.result[j].changed_at

\* a timeline of two entries of different days that leaves out an older one
C10_Witness ==
    /\ last.op = "timeline"
    /\ Len(last.result) = 2
    /\ last.result[1].changed_at > last.result[2].changed_at
    /\ \E h \in history : /\ last.user_id \in AssigneesOf(h.task_id)
                          /\ h \notin Range(last.result)

\* a timeline that leaves out a recent entry of a task no longer assigned to
\* the user
C10_WitnessUnassigned ==
    /\ last.op = "timeline"
    /\ \E h \in history : /\ h.changed_at >= last.at - last.days * SecondsPerDay
                          /\ last.user_id \notin AssigneesOf(h.task_id)
                          /\ h \notin Range(last.result)

\* a delete of a task that existed when the request was made
DeleteRequested == last.op = "delete" /\ last.id \in DOMAIN last.before.store[1]

\* the tables without the rows of the task last deleted
WithoutDeleted ==
    <<[x \in (DOMAIN last.before.store[1]) \ {last.id} |-> last.before.store[1][x]],
      {a \in last.before.store[2] : a.task_id # last.id},
      {d \in last.before.store[3] : d.task_id # last.id /\ d.depends_on_task_id # last.id},
      last.before.store[4],
      {x \in last.before.store[5] : x.task_id # last.id},
      {h \in last.before.store[6] : h.task_id # last.id}>>

\* C11: a delete of an existing task succeeds and removes the task, its
\* assignments, its history and every dependency edge the task is an end of,
\* also when other tasks depend on it; the rows of other tasks stay as they were.
C11_DeleteRemovesTaskAndItsRows ==
    DeleteRequested => (last.outcome = "ok" /\ store = WithoutDeleted)

\* the part of C11 the code satisfies: a delete of a task no other task
\* depends on
C11_DeleteOfTaskWithoutDependents ==
    (DeleteRequested /\ \A d \in last.before.store[3] :
                            d.depends_on_task_id = last.id => d.task_id = last.id)
        => (last.outcome = "ok" /\ store = WithoutDeleted)

\* the operations that change the fields or the associations of given tasks
OwnTaskMutations == {"update", "bulk_update", "add_dependency", "remove_dependency"}

\* the tasks the request last served has changed
MutatedTasks ==
    IF last.op = "bulk_update" THEN {t \in BulkExisting : BulkOwed(t) > 0} ELSE {last.id}

\* C12: once an update, a bulk update, an add or a remove of a dependency has
\* changed a task, the cache holds no entry of that task, so that a get of it
\* reads the store.
C12_MutationInvalidatesTaskCache ==
    (last.op \in OwnTaskMutations /\ last.outcome = "ok") =>
        \A t \in MutatedTasks : RedisGet(TaskKey(t)) = Null

\* the part of C12 the code satisfies: the update of one task
C12_UpdateInvalidatesTaskCache ==
    (last.op = "update" /\ last.outcome = "ok") => RedisGet(TaskKey(last.id)) = Null

\* an analytics request served after a create, an update, a bulk update or a
\* delete has committed, with no analytics request in between
AnalyticsAfterMutation ==
    last.op = "analytics" /\ last.outcome = "ok" /\ last.mutated # Null

\* C13: when a create, an update, a bulk update or a delete has committed, the
\* cache holds no analytics entry, and the analytics request that follows is
\* computed from the store as that request finds it.
C13_MutationInvalidatesAnalytics ==
    /\ (last.op \in TaskMutations /\ last.outcome = "ok") => RedisGet(AnalyticsKey) = Null
    /\ (AnalyticsAfterMutation /\ now = last.at) =>
          (last.source = "store" /\ last.result = ComputeAnalytics)

\* an analytics request that follows a mutation made while the entry of an
\* earlier analytics request was still live, and returns another snapshot
C13_Witness ==
    /\ AnalyticsAfterMutation
    /\ Val(last.mutated).prev # Null
    /\ last.at < Val(Val(last.mutated).prev).expires
    /\ last.result # Val(Val(last.mutated).prev).result
    /\ last.result = ComputeAnalytics

\* C16: an update of an id that is no task's reports not-found, and leaves
\* every table, every counter and every cache entry as it was.
C16_UpdateOfMissingTaskHasNoEffect ==
    /\ (last.op = "update" /\ last.id \notin DOMAIN tasks) => last.outcome = "not_found"
    /\ (last.op = "update" /\ last.outcome = "not_found") =>
          /\ last.id \notin DOMAIN tasks
          /\ store = last.before.store
          /\ seq = last.before.seq
          /\ redis = last.before.redis

\* an update of a missing id, made while the store holds a task and the cache
\* holds the entry of a task and the analytics entry
C16_Witness ==
    /\ last.op = "update"
    /\ last.outcome = "not_found"
    /\ DOMAIN tasks # {}
    /\ RedisGet(AnalyticsKey) # Null
    /\ \E t \in DOMAIN tasks : RedisGet(TaskKey(t)) # Null

\* a lifecycle request that raised before its commit returned
WriteFailed == last.op \in MutatingOps /\ last.outcome = "error"

\* C14: when a create, an update, a bulk update, a delete, or an add or a
\* remove of a dependency fails, every table is as it was before the request;
\* a failed create leaves no task.
C14_FailedRequestLeavesStore ==
    /\ WriteFailed => store = last.before.store
    /\ (WriteFailed /\ last.op = "create") => last.id \notin DOMAIN tasks

\* an update that failed after it had deleted the assignments of the task,
\* which are still there
C14_Witness ==
    /\ WriteFailed
    /\ last.op = "update"
    /\ "assignee_ids" \in DOMAIN last.input
    /\ last.input.assignee_ids # Null
    /\ AssigneesOf(last.id) # {}

\* C15: a failure of the cache store fails no request: a get and an analytics
\* request answer from the store, and a create, an update, a bulk update or a
\* delete whose transaction was committed reports success.
C15_CacheFailureFailsNoRequest ==
    /\ last.op = "get" =>
          \/ last.outcome = "not_found" /\ last.id \notin DOMAIN tasks
          \/ last.outcome = "ok"
    /\ last.op = "analytics" => last.outcome = "ok"
    /\ (last.op \in TaskMutations /\ Committed(last)) => last.outcome = "ok"

\* the scalar fields an update supplies with a value other than the task's
DifferingFields ==
    {f \in ScalarFields \cap DOMAIN last.input : last.input[f] # last.before.row[f]}

\* C17: an update appends one history entry for each scalar field it supplies
\* with a value other than the task's, with the field's name, the text of the
\* old and of the new value, the task and the acting user; it appends no entry
\* for a field absent or unchanged, nor for the assignee or tag lists, and it
\* removes none.
C17_UpdateHistoryPerChangedField ==
    UpdateDone =>
        /\ \A f \in DifferingFields :
              Cardinality({h \in NewHistory : h.field_changed = f}) = 1
        /\ \A h \in NewHistory :
              /\ h.field_changed \in DifferingFields
              /\ h.task_id = last.id
              /\ h.user_id = last.user_id
              /\ h.old_value = Str(h.field_changed, last.before.row[h.field_changed])
              /\ h.new_value = Str(h.field_changed, last.input[h.field_changed])
              /\ h.changed_at = last.at
        /\ Cardinality(history) = Cardinality(last.before.history_ids) + Cardinality(NewHistory)

\* an update that supplies a changed status, an unchanged priority, a changed
\* due date and an assignee list, and writes two entries
C17_Witness ==
    /\ UpdateDone
    /\ {"status", "priority", "due_date", "assignee_ids"} \subseteq DOMAIN last.input
    /\ last.input.priority = last.before.row.priority
    /\ {h.field_changed : h \in NewHistory} = {"status", "due_date"}

\* C18: the table of dependencies holds at most one edge for each ordered pair
\* (task_id, depends_on_task_id).
C18_OneEdgePerOrderedPair ==
    \A x, y \in dependencies :
        (x.task_id = y.task_id /\ x.depends_on_task_id = y.depends_on_task_id) => x = y

\* the part of C18 the code satisfies: an add served on its own leaves one edge
\* of its pair when there was none or one before it
C18_AddLeavesOneEdge ==
    (AddRequested /\ Cardinality(Edges(last.before.store[3], last.id, last.depends_on)) <= 1
                  /\ last.outcome \in {"ok", "conflict"})
        => Cardinality(Edges(dependencies, last.id, last.depends_on)) = 1

C20_TagNamesDistinct ==
    \A g, h \in tags : g.name = h.name => g.id = h.id

\* two creates that name the same new tag twice each overlapped: one of them
\* inserted the tag, and the commit of the other was refused
C20_Witness ==
    /\ last.op = "create"
    /\ last.outcome = "error"
    /\ last.input.tag_names = <<"a", "a">>
    /\ Cardinality({g \in tags : g.name = "a"}) = 1

\* C21: a request leaves every history entry as it is, except a delete of the
\* entry's own task, which removes all the entries of that task and no other.
C21_HistoryOnlyRemovedWithTask ==
    [][\A h \in history :
          \/ h \in history'
          \/ /\ last'.op = "delete"
             /\ last'.outcome = "ok"
             /\ last'.id = h.task_id
             /\ \A g \in history' : g.task_id # h.task_id]_vars

\* a delete removed the entries of its task and left those of another task
C21_Witness ==
    /\ last.op = "delete"
    /\ last.outcome = "ok"
    /\ \E h \in last.before.store[6] : h.task_id = last.id
    /\ history # {}
    /\ history = {h \in last.before.store[6] : h.task_id # last.id}

\* an update made after the clock has moved on from the task's updated_at
\* changed the assignees, the tags or a scalar field of the task
UpdateChangedTask ==
    /\ UpdateDone
    /\ last.at > last.before.row.updated_at
    /\ \/ DifferingFields # {}
       \/ AssigneesOf(last.id) # last.before.assignees
       \/ TagNamesOf(last.id) # last.before.tags

\* C22: after an update that changes the assignees, the tags or a scalar
\* field of a task, the task's updated_at is later than it was before.
C22_MutationRefreshesUpdatedAt ==
    UpdateChangedTask => tasks[last.id].updated_at > last.before.row.updated_at

\* the part of C22 the code satisfies: an update that changes a scalar field
C22_ScalarChangeRefreshesUpdatedAt ==
    (UpdateChangedTask /\ DifferingFields # {}) =>
        tasks[last.id].updated_at = last.at

\* an update of an existing task whose input sets assignee_ids or tag_names
\* to null
UpdateWithNullCollection ==
    /\ last.op = "update"
    /\ last.outcome # "not_found"
    /\ \E f \in {"assignee_ids", "tag_names"} : f \in DOMAIN last.input /\ last.input[f] = Null

\* C25: an update whose input sets assignee_ids or tag_names to null succeeds,
\* leaves the assignments (for a null assignee_ids) and the tags (for a null
\* tag_names) of the task as they were, and writes no history entry for the
\* collection.
C25_NullCollectionLeavesTask ==
    UpdateWithNullCollection =>
        /\ last.outcome = "ok"
        /\ ("assignee_ids" \in DOMAIN last.input /\ last.input.assignee_ids = Null)
              => AssigneesOf(last.id) = last.before.assignees
        /\ ("tag_names" \in DOMAIN last.input /\ last.input.tag_names = Null)
              => TagNamesOf(last.id) = last.before.tags
        /\ \A h \in NewHistory : h.field_changed \in ScalarFields

\* what the code does for such an update: it fails, and the store is as before
C25_NullCollectionFailsUpdate ==
    UpdateWithNullCollection => (last.outcome = "error" /\ store = last.before.store)

\* the tasks with a live entry in the per-task cache
CachedTasks == {t \in DOMAIN tasks : RedisGet(TaskKey(t)) # Null}

\* C23: once a get of a task and an update of the same task that overlapped
\* have both completed, the cache entry of the task is absent or holds the
\* task as stored after the update: with no request in flight, every live
\* cache entry was written from the task as it is now stored.
C23_CacheEntryIsStoredTask ==
    Held = {} =>
        \A t \in CachedTasks : t \in DOMAIN ghost.cached /\ ghost.cached[t] = LoadedTask(t)

\* the part of C23 the code satisfies: when an update has answered, the cache
\* holds no entry for its task
C23_UpdateLeavesNoEntry ==
    (last.op = "update" /\ last.outcome = "ok") => last.id \notin CachedTasks

\* the history entries of a task for one field
FieldHistory(t, f) == {h \in history : h.task_id = t /\ h.field_changed = f}

\* the entry committed last before entry h for the same task and field, if any
PreviousEntry(h) ==
    LET earlier == {g \in FieldHistory(h.task_id, h.field_changed) : g.id < h.id}
    IN IF earlier = {} THEN Null
       ELSE Some(CHOOSE g \in earlier : \A x \in earlier : x.id <= g.id)

\* C24: for every task and scalar field, the history entries in commit order
\* form a chain: the old value of an entry is the new value of the entry
\* before it, and the old value of the first entry is the value the task was
\* created with.
C24_HistoryFormsChain ==
    \A h \in history :
        h.field_changed \in ScalarFields =>
            IF PreviousEntry(h) = Null
            THEN h.old_value = Str(h.field_changed, ghost.initial[h.task_id][h.field_changed])
            ELSE h.old_value = Val(PreviousEntry(h)).new_value

\* the part of C24 the code satisfies: the old value of an entry is the value
\* of the row the request loaded
C24_OldValueIsLoadedValue ==
    UpdateDone =>
        \A h \in NewHistory : h.old_value = Str(h.field_changed, last.before.row[h.field_changed])
====
